---- MODULE Spec2Model ----
(***************************************************************************)
(* Model of the Gemini proxy service (Vertex AI version):                  *)
(*   src/gemini_proxy_service.py  the service layer (validation, the       *)
(*                                upstream call, error classification)     *)
(*   src/app.py                   the Flask application (/gemini-proxy)    *)
(*                                                                         *)
(* Requests overlap: a call of process_proxy_request that gets as far as   *)
(* model.generate_content waits there while other requests begin and       *)
(* return; `waiting` holds the waiting calls, and op, upstream, result,    *)
(* response, upstream_calls describe the operation that has just returned. *)
(*                                                                         *)
(* Representation of Python values:                                        *)
(*   - a str is a sequence of characters; a character is a one-character   *)
(*     string, or, for the code points above U+00FF, which a TLA+ string   *)
(*     cannot hold, its name such as "U+212A"; the alphabet is Latin-1     *)
(*     plus the characters named in Whitespace and LowerChar;              *)
(*   - a prompt is a run-length encoded str, a sequence of runs            *)
(*     [ch |-> c, n |-> k] (k >= 1 copies of c), so that prompts around    *)
(*     MAX_PROMPT_LENGTH characters are ordinary values;                   *)
(*   - an Optional value is None or Some(v);                               *)
(*   - a dict is a record whose DOMAIN is the dict's key set;              *)
(*   - a formatted message is [fmt |-> template, args |-> <<str, ...>>].   *)
(***************************************************************************)
EXTENDS Integers, Sequences, FiniteSets, Bags, TLC

VARIABLES
    pc,                      \* startup phase: "import", "dotenv", "serving"
    environ,                 \* os.environ: GOOGLE_CLOUD_PROJECT, API_KEYS
    dotenv_file,             \* GOOGLE_CLOUD_PROJECT as the .env file gives it
    _vertex_ai_initialized,  \* module global, gemini_proxy_service.py:47
    _vertex_ai_init_error,   \* module global, gemini_proxy_service.py:48
    VALID_API_KEYS,          \* module global, app.py:44
    waiting,                 \* the calls waiting in model.generate_content (a bag)
    op,                      \* the operation that has just returned, and its inputs
    upstream,                \* what the upstream did in that operation
    result,                  \* the dict process_proxy_request returned, if it did
    response,                \* the HTTP response of that operation, if any
    upstream_calls,          \* generate_content calls of that operation
    stub,                    \* the deterministic upstream stub, if one is installed
    earlier                  \* an earlier service call, kept for comparison

vars == <<pc, environ, dotenv_file, _vertex_ai_initialized, _vertex_ai_init_error,
          VALID_API_KEYS, waiting, op, upstream, result, response, upstream_calls,
          stub, earlier>>

(***************************************************************************)
(* Python values                                                           *)
(***************************************************************************)
None == [isNone |-> TRUE]
Some(v) == [isNone |-> FALSE, val |-> v]

\* `x or default` for an Optional[str]: None and "" are falsy.
OrDefault(x, default) == IF x.isNone \/ x.val = <<>> THEN default ELSE x.val

\* The control and Latin-1 characters that have no escape in a TLA+ string:
\* U+000B (vertical tab), U+001C..U+001F (the separators), U+0085 (next
\* line), U+00A0 (no-break space).
VT == ""
FS == ""
GS == ""
RS == ""
US == ""
NEL == ""
NBSP == " "

\* The characters str.strip() removes: those str.isspace() holds of.
Whitespace ==
    {" ", "\t", "\n", VT, "\f", "\r", FS, GS, RS, US, NEL, NBSP,
     "U+1680", "U+2000", "U+2001", "U+2002", "U+2003", "U+2004", "U+2005",
     "U+2006", "U+2007", "U+2008", "U+2009", "U+200A", "U+2028", "U+2029",
     "U+202F", "U+205F", "U+3000"}

\* The cased letters of Latin-1, upper case and lower case side by side.
UpperCase == <<"A","B","C","D","E","F","G","H","I","J","K","L","M",
               "N","O","P","Q","R","S","T","U","V","W","X","Y","Z",
               "À","Á","Â","Ã","Ä","Å","Æ","Ç","È","É",
               "Ê","Ë","Ì","Í","Î","Ï","Ð","Ñ","Ò","Ó",
               "Ô","Õ","Ö","Ø","Ù","Ú","Û","Ü","Ý","Þ">>
LowerCase == <<"a","b","c","d","e","f","g","h","i","j","k","l","m",
               "n","o","p","q","r","s","t","u","v","w","x","y","z",
               "à","á","â","ã","ä","å","æ","ç","è","é",
               "ê","ë","ì","í","î","ï","ð","ñ","ò","ó",
               "ô","õ","ö","ø","ù","ú","û","ü","ý","þ">>

\* c.lower() of one character, a str: U+0130 (capital I with dot above)
\* gives two characters, U+212A (Kelvin sign) gives "k", U+212B (Angstrom
\* sign) gives U+00E5.
LowerChar(c) ==
    IF c = "U+0130" THEN <<"i", "U+0307">>
    ELSE IF c = "U+212A" THEN <<"k">>
    ELSE IF c = "U+212B" THEN <<"å">>
    ELSE IF \E i \in 1..Len(UpperCase) : UpperCase[i] = c
    THEN <<LowerCase[CHOOSE i \in 1..Len(UpperCase) : UpperCase[i] = c]>>
    ELSE <<c>>

\* str.lower()
RECURSIVE Lower(_)
Lower(s) == IF s = <<>> THEN <<>> ELSE LowerChar(Head(s)) \o Lower(Tail(s))

\* `sub in s`
Contains(sub, s) ==
    \E i \in 0..(Len(s) - Len(sub)) : SubSeq(s, i + 1, i + Len(sub)) = sub

SetMin(S) == CHOOSE x \in S : \A y \in S : x <= y
SetMax(S) == CHOOSE x \in S : \A y \in S : y <= x

\* str.strip()
Strip(s) ==
    LET keep == {i \in 1..Len(s) : s[i] \notin Whitespace}
    IN  IF keep = {} THEN <<>> ELSE SubSeq(s, SetMin(keep), SetMax(keep))

\* len(prompt) of a run-length encoded str
RECURSIVE PromptLen(_)
PromptLen(p) == IF p = <<>> THEN 0 ELSE Head(p).n + PromptLen(Tail(p))

\* prompt.strip() of a run-length encoded str
PromptStrip(p) ==
    LET keep == {i \in 1..Len(p) : p[i].ch \notin Whitespace}
    IN  IF keep = {} THEN <<>> ELSE SubSeq(p, SetMin(keep), SetMax(keep))

\* str(n) for n >= 0
Digits == <<"0","1","2","3","4","5","6","7","8","9">>
RECURSIVE IntToStr(_)
IntToStr(n) ==
    IF n < 10 THEN <<Digits[n + 1]>>
    ELSE IntToStr(n \div 10) \o <<Digits[(n % 10) + 1]>>

\* str(x) of an Optional[str], as an f-string formats it
PyStr(x) == IF x.isNone THEN <<"N","o","n","e">> ELSE x.val

Msg(text) == [fmt |-> text, args |-> <<>>]
Fmt(text, a) == [fmt |-> text, args |-> <<a>>]

(***************************************************************************)
(* gemini_proxy_service.py: configuration                                  *)
(***************************************************************************)
MAX_PROMPT_LENGTH == 10000

DEFAULT_MODEL ==
    <<"g","e","m","i","n","i","-","2",".","0","-","f","l","a","s","h","-","e","x","p">>

ErrorCodes ==
    {"AUTH_ERROR", "CREDENTIALS_ERROR", "PERMISSION_DENIED", "BILLING_DISABLED",
     "VALIDATION_ERROR", "CONTENT_SAFETY_ERROR", "MODEL_NOT_FOUND", "QUOTA_ERROR",
     "RATE_LIMIT_ERROR", "TIMEOUT_ERROR", "NETWORK_ERROR", "SERVICE_UNAVAILABLE",
     "CONFIG_ERROR", "API_ERROR", "INTERNAL_ERROR"}

ERROR_HTTP_STATUS ==
    [c \in ErrorCodes |->
        CASE c \in {"AUTH_ERROR", "CREDENTIALS_ERROR"} -> 401
          [] c \in {"PERMISSION_DENIED", "BILLING_DISABLED"} -> 403
          [] c \in {"VALIDATION_ERROR", "CONTENT_SAFETY_ERROR"} -> 400
          [] c = "MODEL_NOT_FOUND" -> 404
          [] c \in {"QUOTA_ERROR", "RATE_LIMIT_ERROR"} -> 429
          [] c = "TIMEOUT_ERROR" -> 504
          [] c = "NETWORK_ERROR" -> 502
          [] c = "SERVICE_UNAVAILABLE" -> 503
          [] OTHER -> 500]

(***************************************************************************)
(* The upstream (vertexai, google.api_core): a black box.  When the try    *)
(* block of call_gemini_api gets to it, either building the model object   *)
(* (GenerationConfig, GenerativeModel; lines 139-150) raises, or           *)
(* model.generate_content is called (line 154), the caller waits, and the  *)
(* call returns a text or raises (reading response.text, line 160,         *)
(* included).  An exception has a class and a message str(e).              *)
(***************************************************************************)
Returns(t) == [kind |-> "text", text |-> t]
Raises(site, c, m) == [kind |-> "raise", at |-> site, cls |-> c, msg |-> m]
NotInvoked == [kind |-> "not_invoked"]
\* generate_content has been called and has not answered yet.
Pending == [kind |-> "pending"]
\* No dict has been returned.
NoResult == [none |-> TRUE]

\* The exception classes the upstream raises: the six that call_gemini_api
\* names, another GoogleAPICallError (NotFound), a bare GoogleAPIError, and
\* an exception outside google.api_core (ValueError).
ExceptionClasses ==
    {"ResourceExhausted", "InvalidArgument", "DeadlineExceeded",
     "ServiceUnavailable", "Unauthenticated", "PermissionDenied",
     "NotFound", "GoogleAPIError", "ValueError"}

\* The classes of `except` clauses an exception of class c is an instance of.
Bases(c) ==
    IF c = "ValueError" THEN {"ValueError", "Exception"}
    ELSE {c, "GoogleAPIError", "Exception"}

(***************************************************************************)
(* gemini_proxy_service.py: GeminiProxyService                             *)
(***************************************************************************)
getenv(name) == environ[name]

\* `not x` for an Optional[str]
Falsy(x) == x.isNone \/ x.val = <<>>

validate_model(model_name) ==
    IF model_name = <<>>
    THEN [valid |-> FALSE, error |-> Msg("Model name is required")]
    ELSE IF Len(Strip(model_name)) < 3
    THEN [valid |-> FALSE, error |-> Msg("Invalid model name format")]
    ELSE [valid |-> TRUE]

\* A plausible slip: the length limit is never checked.
validate_prompt_no_limit(prompt) ==
    IF prompt.isNone \/ prompt.val = <<>> \/ PromptStrip(prompt.val) = <<>>
    THEN [valid |-> FALSE, error |-> Msg("Prompt is required")]
    ELSE [valid |-> TRUE]

validate_prompt(prompt) ==
    IF prompt.isNone \/ prompt.val = <<>> \/ PromptStrip(prompt.val) = <<>>
    THEN [valid |-> FALSE, error |-> Msg("Prompt is required")]
    ELSE IF PromptLen(prompt.val) > MAX_PROMPT_LENGTH
    THEN [valid |-> FALSE,
          error |-> Fmt("Prompt too long. Maximum {} characters allowed",
                        IntToStr(MAX_PROMPT_LENGTH))]
    ELSE [valid |-> TRUE]

\* `_vertex_ai_init_error or "Unknown initialization error"`
InitErrorOrUnknown ==
    IF _vertex_ai_init_error.isNone \/ _vertex_ai_init_error.val = <<>>
    THEN Msg("Unknown initialization error")
    ELSE Fmt("{}", _vertex_ai_init_error.val)

\* call_gemini_api, lines 129-136: Vertex AI was not initialised.
not_initialized_result ==
    [success |-> FALSE,
     error_code |-> "CONFIG_ERROR",
     error_message |-> Msg("Vertex AI initialization failed"),
     details |-> InitErrorOrUnknown,
     action |-> Msg("Check GOOGLE_CLOUD_PROJECT and GOOGLE_APPLICATION_CREDENTIALS environment variables")]

\* A plausible slip: the text is returned without the emptiness check.
on_response_unchecked(text) ==
    [success |-> TRUE, response |-> Strip(text)]

\* call_gemini_api, lines 159-176: the upstream returned `text`.
on_response(text) ==
    LET response_text == Strip(text)
    IN  IF response_text = <<>>
        THEN [success |-> FALSE,
              error_code |-> "API_ERROR",
              error_message |-> Msg("Received empty response from Vertex AI"),
              action |-> Msg("Try rephrasing your prompt or use a different model")]
        ELSE [success |-> TRUE, response |-> response_text]

except_ResourceExhausted(msg) ==
    [success |-> FALSE,
     error_code |-> "QUOTA_ERROR",
     error_message |-> Msg("Vertex AI quota exceeded. Please try again later."),
     action |-> Msg("Wait a few minutes or check quota limits in Google Cloud Console"),
     help_url |-> Fmt("https://console.cloud.google.com/apis/api/aiplatform.googleapis.com/quotas?project={}",
                      PyStr(getenv("GOOGLE_CLOUD_PROJECT")))]

\* A plausible slip: the markers are looked for in the message as it is,
\* not in its lower-case form.
except_InvalidArgument_case_sensitive(msg) ==
    IF Contains(<<"s","a","f","e","t","y">>, msg) \/ Contains(<<"b","l","o","c","k">>, msg)
    THEN [success |-> FALSE,
          error_code |-> "CONTENT_SAFETY_ERROR",
          error_message |-> Msg("Content was blocked by safety filters"),
          details |-> Msg("Your prompt may contain inappropriate content"),
          action |-> Msg("Modify your prompt to comply with content safety guidelines")]
    ELSE [success |-> FALSE,
          error_code |-> "VALIDATION_ERROR",
          error_message |-> Fmt("Invalid request: {}", msg),
          action |-> Msg("Check your prompt and model parameters")]

except_InvalidArgument(msg) ==
    IF Contains(<<"s","a","f","e","t","y">>, Lower(msg))
       \/ Contains(<<"b","l","o","c","k">>, Lower(msg))
    THEN [success |-> FALSE,
          error_code |-> "CONTENT_SAFETY_ERROR",
          error_message |-> Msg("Content was blocked by safety filters"),
          details |-> Msg("Your prompt may contain inappropriate content"),
          action |-> Msg("Modify your prompt to comply with content safety guidelines")]
    ELSE [success |-> FALSE,
          error_code |-> "VALIDATION_ERROR",
          error_message |-> Fmt("Invalid request: {}", msg),
          action |-> Msg("Check your prompt and model parameters")]

except_DeadlineExceeded(msg) ==
    [success |-> FALSE,
     error_code |-> "TIMEOUT_ERROR",
     error_message |-> Msg("Request timed out"),
     details |-> Msg("The API request took too long to complete"),
     action |-> Msg("Try again with a shorter prompt or simpler request")]

except_ServiceUnavailable(msg) ==
    [success |-> FALSE,
     error_code |-> "SERVICE_UNAVAILABLE",
     error_message |-> Msg("Vertex AI service is temporarily unavailable"),
     action |-> Msg("Please try again in a few moments")]

except_Unauthenticated(msg) ==
    [success |-> FALSE,
     error_code |-> "CREDENTIALS_ERROR",
     error_message |-> Msg("Invalid or expired service account credentials"),
     details |-> Fmt("{}", msg),
     action |-> Msg("Verify GOOGLE_APPLICATION_CREDENTIALS points to a valid service account JSON key")]

except_PermissionDenied(msg) ==
    IF Contains(<<"b","i","l","l","i","n","g">>, Lower(msg))
       /\ Contains(<<"d","i","s","a","b","l","e","d">>, Lower(msg))
    THEN [success |-> FALSE,
          error_code |-> "BILLING_DISABLED",
          error_message |-> Msg("Billing is not enabled for this Google Cloud project"),
          details |-> Msg("Vertex AI requires an active billing account"),
          action |-> Msg("Enable billing in Google Cloud Console"),
          help_url |-> Fmt("https://console.cloud.google.com/billing/enable?project={}",
                           PyStr(getenv("GOOGLE_CLOUD_PROJECT")))]
    ELSE [success |-> FALSE,
          error_code |-> "PERMISSION_DENIED",
          error_message |-> Msg("Service account lacks required permissions"),
          details |-> Fmt("{}", msg),
          action |-> Msg("Grant 'Vertex AI User' role to your service account in IAM"),
          help_url |-> Fmt("https://console.cloud.google.com/iam-admin/iam?project={}",
                           PyStr(getenv("GOOGLE_CLOUD_PROJECT")))]

except_GoogleAPIError(msg, model_name) ==
    IF Contains(<<"n","o","t"," ","f","o","u","n","d">>, Lower(msg))
       \/ Contains(<<"d","o","e","s"," ","n","o","t"," ","e","x","i","s","t">>, Lower(msg))
    THEN [success |-> FALSE,
          error_code |-> "MODEL_NOT_FOUND",
          error_message |-> Fmt("Model '{}' not found or not accessible in Vertex AI", model_name),
          action |-> Msg("Check model name spelling and availability in your region"),
          help_url |-> Msg("https://cloud.google.com/vertex-ai/generative-ai/docs/learn/models")]
    ELSE IF Contains(<<"r","a","t","e">>, Lower(msg)) /\ Contains(<<"l","i","m","i","t">>, Lower(msg))
    THEN [success |-> FALSE,
          error_code |-> "RATE_LIMIT_ERROR",
          error_message |-> Msg("Rate limit exceeded"),
          details |-> Msg("Too many requests in a short time"),
          action |-> Msg("Wait a moment and retry with exponential backoff")]
    ELSE [success |-> FALSE,
          error_code |-> "API_ERROR",
          error_message |-> Msg("Vertex AI API error occurred"),
          details |-> Fmt("{}", msg)]

\* A plausible slip: a code that ERROR_HTTP_STATUS does not list.
except_Exception_unlisted_code(msg) ==
    [success |-> FALSE,
     error_code |-> "UNKNOWN_ERROR",
     error_message |-> Msg("An unexpected internal error occurred"),
     details |-> Fmt("{}", msg),
     action |-> Msg("Check application logs for more details")]

except_Exception(msg) ==
    [success |-> FALSE,
     error_code |-> "INTERNAL_ERROR",
     error_message |-> Msg("An unexpected internal error occurred"),
     details |-> Fmt("{}", msg),
     action |-> Msg("Check application logs for more details")]

\* The `except` clauses of call_gemini_api in their order; the first one the
\* raised exception is an instance of handles it.
ExceptClauses ==
    <<"ResourceExhausted", "InvalidArgument", "DeadlineExceeded", "ServiceUnavailable",
      "Unauthenticated", "PermissionDenied", "GoogleAPIError", "Exception">>

Handler(cls) ==
    ExceptClauses[SetMin({i \in 1..Len(ExceptClauses) : ExceptClauses[i] \in Bases(cls)})]

on_exception(cls, msg, model_name) ==
    LET h == Handler(cls)
    IN  CASE h = "ResourceExhausted" -> except_ResourceExhausted(msg)
          [] h = "InvalidArgument" -> except_InvalidArgument(msg)
          [] h = "DeadlineExceeded" -> except_DeadlineExceeded(msg)
          [] h = "ServiceUnavailable" -> except_ServiceUnavailable(msg)
          [] h = "Unauthenticated" -> except_Unauthenticated(msg)
          [] h = "PermissionDenied" -> except_PermissionDenied(msg)
          [] h = "GoogleAPIError" -> except_GoogleAPIError(msg, model_name)
          [] OTHER -> except_Exception(msg)

\* A plausible slip: a generate_content call that raised is made once more.
invoke_upstream_retrying(model_name, up) ==
    CASE up.kind = "pending" ->
            [ret |-> NoResult, upstream_calls |-> 1, model |-> model_name]
      [] up.kind = "text" ->
            [ret |-> on_response(up.text), upstream_calls |-> 1]
      [] up.kind = "raise" ->
            [ret |-> on_exception(up.cls, up.msg, model_name),
             upstream_calls |-> IF up.at = "GenerativeModel" THEN 0 ELSE 2]

\* The try block of call_gemini_api from line 138 on, for what the upstream
\* does (`up`): the dict returned and the generate_content calls made.  While
\* generate_content has not answered, nothing is returned and the model name
\* stays in the frame.  An exception that leaves GenerativeModel(...) gets to
\* the except clauses before generate_content is called.
invoke_upstream(model_name, up) ==
    CASE up.kind = "pending" ->
            [ret |-> NoResult, upstream_calls |-> 1, model |-> model_name]
      [] up.kind = "text" ->
            [ret |-> on_response(up.text), upstream_calls |-> 1]
      [] up.kind = "raise" ->
            [ret |-> on_exception(up.cls, up.msg, model_name),
             upstream_calls |-> IF up.at = "GenerativeModel" THEN 0 ELSE 1]

\* A plausible slip: the initialisation flag is not consulted.
call_gemini_api_unguarded(prompt, model_name, up) ==
    invoke_upstream(model_name, up)

\* A plausible slip: a process-local limiter that answers from what other
\* requests are doing, instead of asking the upstream.
call_gemini_api_throttled(prompt, model_name, up) ==
    IF ~_vertex_ai_initialized
    THEN [ret |-> not_initialized_result, upstream_calls |-> 0]
    ELSE IF waiting # EmptyBag
    THEN [ret |-> [success |-> FALSE,
                   error_code |-> "RATE_LIMIT_ERROR",
                   error_message |-> Msg("Rate limit exceeded")],
          upstream_calls |-> 0]
    ELSE invoke_upstream(model_name, up)

\* call_gemini_api: the dict returned and the generate_content calls made,
\* given what the upstream does (`up`) if the call gets to it.
call_gemini_api(prompt, model_name, up) ==
    IF ~_vertex_ai_initialized
    THEN [ret |-> not_initialized_result, upstream_calls |-> 0]
    ELSE invoke_upstream(model_name, up)

process_proxy_request(prompt, model_name, up) ==
    LET model == Strip(OrDefault(model_name, DEFAULT_MODEL))
        valid_prompt == validate_prompt(prompt)
        valid_model == validate_model(model)
    IN  IF ~valid_prompt.valid
        THEN [ret |-> [success |-> FALSE,
                       error_code |-> "VALIDATION_ERROR",
                       error_message |-> valid_prompt.error],
              upstream_calls |-> 0]
        ELSE IF ~valid_model.valid
        THEN [ret |-> [success |-> FALSE,
                       error_code |-> "VALIDATION_ERROR",
                       error_message |-> valid_model.error],
              upstream_calls |-> 0]
        ELSE IF Falsy(getenv("GOOGLE_CLOUD_PROJECT"))
        THEN [ret |-> [success |-> FALSE,
                       error_code |-> "CONFIG_ERROR",
                       error_message |-> Msg("GOOGLE_CLOUD_PROJECT environment variable is required for Vertex AI authentication")],
              upstream_calls |-> 0]
        ELSE call_gemini_api(prompt, model, up)

(***************************************************************************)
(* gemini_proxy_service.py: module-level initialisation (lines 46-63)      *)
(***************************************************************************)
\* str(ValueError("GOOGLE_CLOUD_PROJECT environment variable is required"))
PROJECT_REQUIRED ==
    <<"G","O","O","G","L","E","_","C","L","O","U","D","_","P","R","O","J","E","C","T"," ","e","n","v","i","r","o","n","m","e","n","t"," ","v","a","r","i","a","b","l","e"," ","i","s"," ","r","e","q","u","i","r","e","d">>

\* The module's try block: the globals it leaves, where `init_raises` is None
\* when vertexai.init returns and Some(str(e)) when it raises.
module_init(init_raises) ==
    IF Falsy(getenv("GOOGLE_CLOUD_PROJECT"))
    THEN [initialized |-> FALSE, init_error |-> Some(PROJECT_REQUIRED)]
    ELSE IF ~init_raises.isNone
    THEN [initialized |-> FALSE, init_error |-> Some(init_raises.val)]
    ELSE [initialized |-> TRUE, init_error |-> None]

(***************************************************************************)
(* app.py                                                                  *)
(***************************************************************************)
\* s.split(sep)
RECURSIVE Split(_, _)
Split(s, sep) ==
    LET at == {i \in 1..Len(s) : s[i] = sep}
    IN  IF at = {} THEN <<s>>
        ELSE <<SubSeq(s, 1, SetMin(at) - 1)>>
             \o Split(SubSeq(s, SetMin(at) + 1, Len(s)), sep)

\* load_dotenv(): a variable of the .env file is set unless os.environ has it.
load_dotenv(env) ==
    IF env["GOOGLE_CLOUD_PROJECT"].isNone
    THEN [env EXCEPT !["GOOGLE_CLOUD_PROJECT"] = dotenv_file]
    ELSE env

\* {k.strip() for k in os.getenv('API_KEYS', '').split(',') if k.strip()}
valid_api_keys(env) ==
    LET raw == IF env["API_KEYS"].isNone THEN <<>> ELSE env["API_KEYS"].val
        parts == Split(raw, ",")
    IN  {Strip(parts[i]) : i \in {j \in 1..Len(parts) : Strip(parts[j]) # <<>>}}

\* d.get(key, default)
DictGet(d, key, default) == IF key \in DOMAIN d THEN d[key] ELSE default

\* api_response: the (payload, status) pair; data is an Optional dict and
\* errors an Optional list, and `if data:`, `if errors:` skip None and the
\* empty ones.
api_response(success, data, errors, status) ==
    LET head == [result |-> IF success THEN "OK" ELSE "Failed"]
        no_data == data.isNone \/ DOMAIN data.val = {}
        with_data == IF no_data THEN head
                     ELSE [result |-> head.result, data |-> data.val]
        payload == IF errors.isNone \/ errors.val = <<>> THEN with_data
                   ELSE IF no_data
                   THEN [result |-> head.result, errors |-> errors.val]
                   ELSE [result |-> head.result, data |-> data.val,
                         errors |-> errors.val]
    IN  [payload |-> payload, status |-> status]

\* require_api_key: the 401 response, or None when the request goes through.
require_api_key(key) ==
    IF VALID_API_KEYS # {} /\ (Falsy(key) \/ key.val \notin VALID_API_KEYS)
    THEN Some(api_response(FALSE, None,
                           Some(<<[code |-> "AUTH_ERROR",
                                   message |-> Msg("Invalid API Key")]>>),
                           401))
    ELSE None

\* What Flask answers when a view raises: 500, without the JSON envelope.
unhandled_exception(exc) ==
    [payload |-> [unhandled |-> exc], status |-> 500]

\* gemini_proxy, lines 104-128: the response rendered for `res`, the dict
\* process_proxy_request returned.
render_result(res, model_name, processing_time) ==
    IF res.success
    THEN api_response(TRUE,
                      Some([response |-> res.response,
                            model |-> OrDefault(model_name, DEFAULT_MODEL),
                            time |-> processing_time]),
                      None, 200)
    ELSE LET error_code == DictGet(res, "error_code", "INTERNAL_ERROR")
             error_message == DictGet(res, "error_message", Msg("Unknown error"))
             status_code == IF error_code = "VALIDATION_ERROR" THEN 400 ELSE 500
         IN  api_response(FALSE, None,
                          Some(<<[code |-> error_code, message |-> error_message]>>),
                          status_code)

\* The parameters process_proxy_request declares (lines 307-311), beside cls.
ProcessProxyRequestParams == {"prompt", "model_name"}

\* Python's call of process_proxy_request with keyword arguments `kwargs`: a
\* keyword the function does not declare, or a missing prompt, is a TypeError
\* raised before the body runs.
call_process_proxy_request(kwargs, up) ==
    IF ~(DOMAIN kwargs \subseteq ProcessProxyRequestParams) \/ "prompt" \notin DOMAIN kwargs
    THEN [raised |-> TRUE, exc |-> "TypeError", upstream_calls |-> 0]
    ELSE LET r == process_proxy_request(kwargs.prompt,
                                        DictGet(kwargs, "model_name", None), up)
         IN  [raised |-> FALSE, value |-> r.ret, upstream_calls |-> r.upstream_calls]

\* gemini_proxy (lines 86-128) for the JSON body `body`.
gemini_proxy(body, up, processing_time) ==
    LET prompt == DictGet(body, "prompt", Some(<<>>))
        model_name == DictGet(body, "model", None)
        custom_api_key == DictGet(body, "api_key", None)
        call == call_process_proxy_request(
                    [prompt |-> prompt, model_name |-> model_name,
                     api_key |-> custom_api_key,
                     fallback_api_key |-> getenv("GEMINI_API_KEY")], up)
    IN  IF call.raised
        THEN [response |-> unhandled_exception(call.exc), returned |-> None,
              upstream_calls |-> call.upstream_calls]
        ELSE [response |-> render_result(call.value, model_name, processing_time),
              returned |-> Some(call.value),
              upstream_calls |-> call.upstream_calls]

\* The /gemini-proxy route with its require_api_key decorator.
gemini_proxy_route(key, body, up, processing_time) ==
    LET denied == require_api_key(key)
    IN  IF ~denied.isNone
        THEN [response |-> denied.val, returned |-> None, upstream_calls |-> 0]
        ELSE gemini_proxy(body, up, processing_time)

(***************************************************************************)
(* Inputs                                                                  *)
(***************************************************************************)
MaxInFlight == 2
MaxTextLen == 2
MaxTimeMs == 1

\* Prompts: None, "", blank ones, and non-blank ones of MAX_PROMPT_LENGTH
\* characters and one more, with and without whitespace around them.
PromptStrings ==
    {<<>>,
     <<[ch |-> " ", n |-> 1]>>,
     <<[ch |-> VT, n |-> 1]>>,
     <<[ch |-> " ", n |-> MAX_PROMPT_LENGTH + 1]>>,
     <<[ch |-> "a", n |-> 1]>>,
     <<[ch |-> "a", n |-> MAX_PROMPT_LENGTH]>>,
     <<[ch |-> "a", n |-> MAX_PROMPT_LENGTH + 1]>>,
     <<[ch |-> " ", n |-> 1], [ch |-> "a", n |-> MAX_PROMPT_LENGTH - 1]>>,
     <<[ch |-> " ", n |-> 1], [ch |-> "a", n |-> MAX_PROMPT_LENGTH]>>}
Prompts == {None} \cup {Some(p) : p \in PromptStrings}

ModelNames ==
    {None, Some(<<>>), Some(<<" ">>), Some(<<"a","b",NBSP>>),
     Some(<<" ","a","b","c"," ">>)}

TextChars == {" ", VT, "h"}
Texts == UNION {[1..k -> TextChars] : k \in 0..MaxTextLen}

\* str(e) of the exceptions: no message, and messages with and without the
\* markers the except clauses look for, in upper and lower case.
Messages ==
    {<<>>,
     <<"S","a","f","e","t","y">>,
     <<"B","L","O","C","U+212A">>,
     <<"b","i","l","l","i","n","g">>,
     <<"D","i","s","a","b","l","e","d">>,
     <<"B","i","l","l","i","n","g"," ","i","s"," ","d","i","s","a","b","l","e","d">>,
     <<"n","o","t"," ","f","o","u","n","d">>,
     <<"d","o","e","s"," ","N","O","T"," ","e","x","i","s","t">>,
     <<"r","a","t","e">>,
     <<"R","a","t","e"," ","L","U+0130","M","I","T">>,
     <<"R","a","t","e"," ","L","i","m","i","t">>}

\* What model.generate_content does once it is called.
GenerateOutcomes ==
    {Returns(t) : t \in Texts}
    \cup {Raises("generate_content", c, m) : c \in ExceptionClasses, m \in Messages}

\* What building the model object does when it raises: any of the classes,
\* with no message or one with a marker.
ConstructorFailures ==
    {Raises("GenerativeModel", c, m) :
        c \in ExceptionClasses,
        m \in {<<>>, <<"S","a","f","e","t","y">>, <<"n","o","t"," ","f","o","u","n","d">>}}

UpstreamOutcomes == GenerateOutcomes \cup ConstructorFailures

\* What vertexai.init raises when it raises: str(e)
InitFailures == {<<>>, <<"d","e","n","i","e","d">>}

Projects == {None, Some(<<>>), Some(<<"p">>)}
DotenvProjects == {None, Some(<<"q">>)}
ApiKeysSettings == {None, Some(<<" ","k","1",",",",","k","2">>)}
HeaderKeys == {None, Some(<<"k","1">>), Some(<<"z">>)}

BodyFields ==
    [prompt : {None, Some(<<>>), Some(<<[ch |-> " ", n |-> 1]>>),
               Some(<<[ch |-> "a", n |-> 1]>>),
               Some(<<[ch |-> "a", n |-> MAX_PROMPT_LENGTH + 1]>>)},
     model : {None, Some(<<"a","b"," ">>), Some(<<" ","a","b","c"," ">>)},
     api_key : {None, Some(<<"k">>)}]
\* A JSON object with any of the three fields left out.
Bodies ==
    {[k \in present |-> fields[k]] :
        present \in SUBSET {"prompt", "model", "api_key"}, fields \in BodyFields}

\* The inputs of the runs against a deterministic upstream stub.
StubPrompts ==
    {None, Some(<<[ch |-> " ", n |-> 1]>>), Some(<<[ch |-> "a", n |-> 1]>>),
     Some(<<[ch |-> "a", n |-> MAX_PROMPT_LENGTH + 1]>>)}
StubModelNames == {None, Some(<<" ">>), Some(<<" ","a","b","c"," ">>)}
StubOutcomes ==
    {Returns(<<"h">>), Returns(<<" ">>),
     Raises("generate_content", "InvalidArgument", <<"S","a","f","e","t","y">>),
     Raises("generate_content", "PermissionDenied", <<"B","i","l","l","i","n","g"," ","i","s"," ","d","i","s","a","b","l","e","d">>),
     Raises("GenerativeModel", "ValueError", <<>>)}

(***************************************************************************)
(* The state machine                                                       *)
(***************************************************************************)
IdleOp == [kind |-> "idle"]
NoResponse == [none |-> TRUE]

config == <<pc, environ, dotenv_file, _vertex_ai_initialized, _vertex_ai_init_error,
            VALID_API_KEYS, stub>>

\* What an operation that has returned leaves to look at.
returned == <<op, upstream, result, response, upstream_calls>>

StartEnvironments ==
    {[GOOGLE_CLOUD_PROJECT |-> prj, API_KEYS |-> keys, GEMINI_API_KEY |-> None] :
        prj \in Projects, keys \in ApiKeysSettings}

InitCommon ==
    /\ pc = "import"
    /\ environ \in StartEnvironments
    /\ dotenv_file \in DotenvProjects
    \* load_dotenv never overrides a variable os.environ has.
    /\ ~environ["GOOGLE_CLOUD_PROJECT"].isNone => dotenv_file = None
    /\ _vertex_ai_initialized = FALSE
    /\ _vertex_ai_init_error = None
    /\ VALID_API_KEYS = {}
    /\ waiting = EmptyBag
    /\ op = IdleOp
    /\ upstream = NotInvoked
    /\ result = NoResult
    /\ response = NoResponse
    /\ upstream_calls = 0
    /\ earlier = None

Init == InitCommon /\ stub = None

\* The upstream does the same thing for every call.
InitStub == InitCommon /\ stub \in {Some(u) : u \in StubOutcomes}

\* `from gemini_proxy_service import ...` (app.py:12) runs the module's
\* initialisation.
ImportService ==
    /\ pc = "import"
    /\ \E init_raises \in
            IF Falsy(getenv("GOOGLE_CLOUD_PROJECT")) THEN {None}
            ELSE {None} \cup {Some(m) : m \in InitFailures} :
          LET g == module_init(init_raises)
          IN  /\ _vertex_ai_initialized' = g.initialized
              /\ _vertex_ai_init_error' = g.init_error
    /\ pc' = "dotenv"
    /\ UNCHANGED <<environ, dotenv_file, VALID_API_KEYS, waiting, returned, stub,
                   earlier>>

\* The rest of app.py's module body: load_dotenv() (line 15) and
\* VALID_API_KEYS (line 44).
LoadApp ==
    /\ pc = "dotenv"
    /\ environ' = load_dotenv(environ)
    /\ VALID_API_KEYS' = valid_api_keys(load_dotenv(environ))
    /\ pc' = "serving"
    /\ UNCHANGED <<dotenv_file, _vertex_ai_initialized, _vertex_ai_init_error,
                   waiting, returned, stub, earlier>>

\* A call process_proxy_request(prompt, model_name) gets to the upstream when
\* it passes the checks before line 138.
Reaches(prompt, model_name) ==
    process_proxy_request(prompt, model_name, Pending).ret = NoResult

\* A call process_proxy_request(prompt, model_name) begins and runs until it
\* returns or waits in model.generate_content (line 154), the upstream doing
\* `up` on the way.  Other requests go on while the call waits.
Call(prompt, model_name, up) ==
    /\ pc = "serving"
    /\ op = IdleOp
    /\ \E r \in {process_proxy_request(prompt, model_name, up)} :
          IF r.ret = NoResult
          THEN /\ BagCardinality(waiting) < MaxInFlight
               /\ waiting' = waiting (+) SetToBag({[prompt |-> prompt,
                                                     model_name |-> model_name,
                                                     model |-> r.model]})
               /\ UNCHANGED returned
          ELSE /\ op' = [kind |-> "process_proxy_request", prompt |-> prompt,
                         model_name |-> model_name]
               /\ result' = r.ret
               /\ response' = NoResponse
               /\ upstream' = up
               /\ upstream_calls' = r.upstream_calls
               /\ UNCHANGED waiting
    /\ UNCHANGED config

\* model.generate_content answers the waiting call `c` with `up`: the call
\* goes on from line 154 to its return, through the except clauses if the
\* answer is an exception, and process_proxy_request returns what
\* call_gemini_api returned.
Return(c, up) ==
    /\ pc = "serving"
    /\ op = IdleOp
    /\ BagIn(c, waiting)
    /\ \E r \in {invoke_upstream(c.model, up)} :
          /\ op' = [kind |-> "process_proxy_request", prompt |-> c.prompt,
                    model_name |-> c.model_name]
          /\ result' = r.ret
          /\ response' = NoResponse
          /\ upstream' = up
          /\ upstream_calls' = r.upstream_calls
    /\ waiting' = waiting (-) SetToBag({c})
    /\ UNCHANGED config

ServiceCall ==
    /\ pc = "serving"
    /\ op = IdleOp
    /\ \E prompt \in Prompts, model_name \in ModelNames :
          \E up \in IF Reaches(prompt, model_name)
                    THEN {Pending} \cup ConstructorFailures
                    ELSE {NotInvoked} :
             Call(prompt, model_name, up)
    /\ UNCHANGED earlier

ServiceReturn ==
    /\ pc = "serving"
    /\ op = IdleOp
    /\ \E c \in BagToSet(waiting), up \in GenerateOutcomes : Return(c, up)
    /\ UNCHANGED earlier

\* A call against the stub.
StubbedCall ==
    /\ pc = "serving"
    /\ op = IdleOp
    /\ ~stub.isNone
    /\ \E prompt \in StubPrompts, model_name \in StubModelNames :
          \E up \in IF ~Reaches(prompt, model_name) THEN {NotInvoked}
                    ELSE IF stub.val.kind = "raise" /\ stub.val.at = "GenerativeModel"
                    THEN {stub.val}
                    ELSE {Pending} :
             Call(prompt, model_name, up)
    /\ UNCHANGED earlier

\* The stub answers a waiting call.
StubbedReturn ==
    /\ pc = "serving"
    /\ op = IdleOp
    /\ ~stub.isNone
    /\ \E c \in BagToSet(waiting) : Return(c, stub.val)
    /\ UNCHANGED earlier

\* One POST /gemini-proxy with X-API-KEY `key` and JSON body `body`.  The
\* handler's call of process_proxy_request raises before the upstream is
\* reached, so the request never waits.
HttpRequest ==
    /\ pc = "serving"
    /\ op = IdleOp
    /\ \E key \in HeaderKeys, body \in Bodies :
      \E up \in IF gemini_proxy_route(key, body, Returns(<<>>), 0).upstream_calls > 0
                THEN UpstreamOutcomes ELSE {NotInvoked},
         processing_time \in 0..MaxTimeMs :
        \E r \in {gemini_proxy_route(key, body, up, processing_time)} :
            /\ op' = [kind |-> "gemini_proxy", key |-> key, body |-> body,
                      authorized |-> require_api_key(key).isNone]
            /\ result' = IF r.returned.isNone THEN NoResult ELSE r.returned.val
            /\ response' = r.response
            /\ upstream' = up
            /\ upstream_calls' = r.upstream_calls
            /\ UNCHANGED <<config, waiting, earlier>>

\* The operation that returned is over.
AwaitNext ==
    /\ op # IdleOp
    /\ op' = IdleOp
    /\ result' = NoResult
    /\ response' = NoResponse
    /\ upstream' = NotInvoked
    /\ upstream_calls' = 0
    /\ UNCHANGED <<config, waiting, earlier>>

\* The call that returned is kept for comparison with later ones.
KeepCall ==
    /\ op # IdleOp
    /\ op.kind = "process_proxy_request"
    /\ earlier' = Some([prompt |-> op.prompt, model_name |-> op.model_name,
                        ret |-> result])
    /\ op' = IdleOp
    /\ result' = NoResult
    /\ response' = NoResponse
    /\ upstream' = NotInvoked
    /\ upstream_calls' = 0
    /\ UNCHANGED <<config, waiting>>

Next ==
    ImportService \/ LoadApp \/ ServiceCall \/ ServiceReturn \/ HttpRequest \/ AwaitNext

Spec == Init /\ [][Next]_vars

NextStub ==
    ImportService \/ LoadApp \/ StubbedCall \/ StubbedReturn \/ KeepCall \/ AwaitNext

StubSpec == InitStub /\ [][NextStub]_vars

(***************************************************************************)
(* Properties                                                              *)
(***************************************************************************)
IsServiceCall == op.kind = "process_proxy_request"
IsHttpRequest == op.kind = "gemini_proxy"
Returned == "success" \in DOMAIN result
Failed(code) == Returned /\ ~result.success /\ result.error_code = code

\* The request's prompt is non-blank and at most MAX_PROMPT_LENGTH long.
PromptOk(p) ==
    /\ ~p.isNone
    /\ \E i \in 1..Len(p.val) : p.val[i].ch \notin Whitespace
    /\ PromptLen(p.val) <= MAX_PROMPT_LENGTH

\* The model used (the default when none is given) has 3 characters or more
\* after trimming.
ModelOk(m) == Len(Strip(IF m.isNone \/ m.val = <<>> THEN DEFAULT_MODEL ELSE m.val)) >= 3

ProjectSet ==
    /\ ~environ["GOOGLE_CLOUD_PROJECT"].isNone
    /\ environ["GOOGLE_CLOUD_PROJECT"].val # <<>>

TooLongMessage == "Prompt too long. Maximum {} characters allowed"

\* C1: a prompt longer than 10,000 characters makes process_proxy_request
\* return VALIDATION_ERROR without any upstream generation call, whatever the
\* model and the startup state; a non-blank prompt of exactly 10,000
\* characters is not rejected for its length.
C1_LongPromptRejected ==
    IsServiceCall /\ ~op.prompt.isNone =>
        /\ PromptLen(op.prompt.val) > MAX_PROMPT_LENGTH =>
              /\ Failed("VALIDATION_ERROR")
              /\ upstream_calls = 0
              /\ upstream = NotInvoked
        /\ PromptLen(op.prompt.val) = MAX_PROMPT_LENGTH /\ PromptOk(op.prompt) =>
              \/ result.success
              \/ result.error_message.fmt # TooLongMessage

\* A non-blank prompt of 10,001 characters or more, with a valid model and
\* Vertex AI initialised, was rejected.
C1_Witness ==
    /\ IsServiceCall
    /\ ~op.prompt.isNone
    /\ PromptLen(op.prompt.val) > MAX_PROMPT_LENGTH
    /\ \E i \in 1..Len(op.prompt.val) : op.prompt.val[i].ch = "a"
    /\ ModelOk(op.model_name)
    /\ _vertex_ai_initialized
    /\ Failed("VALIDATION_ERROR")
    /\ result.error_message.fmt = TooLongMessage

\* C2 as stated: after a failed startup initialisation every request fails
\* with CONFIG_ERROR carrying the captured startup failure detail, and no
\* upstream call is made.
C2_EveryRequestConfigError ==
    IsServiceCall /\ ~_vertex_ai_initialized =>
        /\ Failed("CONFIG_ERROR")
        /\ "details" \in DOMAIN result
        /\ result.details = Fmt("{}", _vertex_ai_init_error.val)
        /\ upstream_calls = 0

\* C2 as amended: after a failed startup initialisation no request reaches
\* the upstream (none waits for it, none has called it); a request that fails prompt or model validation returns
\* VALIDATION_ERROR, every other request returns CONFIG_ERROR; the
\* CONFIG_ERROR carries the captured startup failure detail ("Unknown
\* initialization error" when that detail is empty) if GOOGLE_CLOUD_PROJECT is
\* set when the request is handled, and otherwise no details, only the
\* message that GOOGLE_CLOUD_PROJECT is required.
C2_InitFailedNoUpstream ==
    /\ ~_vertex_ai_initialized => waiting = EmptyBag
    /\ IsServiceCall /\ ~_vertex_ai_initialized =>
        /\ upstream_calls = 0
        /\ upstream = NotInvoked
        /\ ~_vertex_ai_init_error.isNone
        /\ IF ~PromptOk(op.prompt) \/ ~ModelOk(op.model_name)
           THEN Failed("VALIDATION_ERROR")
           ELSE /\ Failed("CONFIG_ERROR")
                /\ IF ProjectSet
                   THEN /\ "details" \in DOMAIN result
                        /\ result.details =
                              IF _vertex_ai_init_error.val = <<>>
                              THEN Msg("Unknown initialization error")
                              ELSE Fmt("{}", _vertex_ai_init_error.val)
                   ELSE /\ "details" \notin DOMAIN result
                        /\ result.error_message =
                              Msg("GOOGLE_CLOUD_PROJECT environment variable is required for Vertex AI authentication")

\* Initialisation failed, the variable is set when a valid request is handled,
\* and the request got CONFIG_ERROR with the captured detail.
C2_Witness ==
    /\ IsServiceCall
    /\ ~_vertex_ai_initialized
    /\ PromptOk(op.prompt)
    /\ ModelOk(op.model_name)
    /\ ProjectSet
    /\ Failed("CONFIG_ERROR")
    /\ _vertex_ai_init_error.val # <<>>
    /\ result.details = Fmt("{}", _vertex_ai_init_error.val)

\* The response the handler's rendering code gives for the last operation's
\* result: the response sent, for an HTTP request; lines 104-128 applied to
\* the dict returned, for a direct call.
Rendered ==
    IF IsHttpRequest THEN response ELSE render_result(result, op.model_name, 0)

\* C3: the HTTP status rendered for a failure result is the status
\* ERROR_HTTP_STATUS gives its error_code.
C3_StatusFromTable ==
    (IsServiceCall \/ IsHttpRequest) /\ Returned /\ ~result.success =>
        /\ result.error_code \in DOMAIN ERROR_HTTP_STATUS
        /\ Rendered.status = ERROR_HTTP_STATUS[result.error_code]

\* A response is the JSON envelope: {result: OK, data} or
\* {result: Failed, errors: [{code, message}]}.
IsEnvelope(payload) ==
    /\ "result" \in DOMAIN payload
    /\ \/ payload.result = "OK" /\ DOMAIN payload = {"result", "data"}
       \/ /\ payload.result = "Failed"
          /\ DOMAIN payload = {"result", "errors"}
          /\ Len(payload.errors) = 1
          /\ DOMAIN payload.errors[1] = {"code", "message"}

\* C4: a request that passes the API-key check gets a ProxyResult from
\* process_proxy_request, rendered as the JSON envelope.
C4_AlwaysOneResultEnvelope ==
    IsHttpRequest /\ op.authorized =>
        /\ Returned
        /\ IsEnvelope(response.payload)

\* C5 as stated: a call of process_proxy_request makes at most one upstream
\* generation call: none when prompt validation, model validation or the
\* configuration check fails (the call then ends with that failure), exactly
\* one when they pass and startup initialisation succeeded, whatever the
\* upstream does.
C5_AtMostOneUpstreamCall ==
    IsServiceCall =>
        /\ upstream_calls <= 1
        /\ ~PromptOk(op.prompt) \/ ~ModelOk(op.model_name) =>
              upstream_calls = 0 /\ upstream = NotInvoked /\ Failed("VALIDATION_ERROR")
        /\ PromptOk(op.prompt) /\ ModelOk(op.model_name) /\ ~ProjectSet =>
              upstream_calls = 0 /\ upstream = NotInvoked /\ Failed("CONFIG_ERROR")
        /\ PromptOk(op.prompt) /\ ModelOk(op.model_name) /\ ProjectSet
           /\ _vertex_ai_initialized =>
              upstream_calls = 1 /\ upstream # NotInvoked

\* C5 as amended: a call of process_proxy_request makes at most one upstream
\* generation call: none when prompt validation, model validation or the
\* configuration check fails (the call then ends with that failure), and none
\* when building the model object raises, which ends the call with the
\* failure that exception is classified as; exactly one when the checks pass,
\* startup initialisation succeeded and the model object is built, whatever
\* generate_content answers.
C5_OneCallOnceModelBuilt ==
    IsServiceCall =>
        /\ upstream_calls <= 1
        /\ ~PromptOk(op.prompt) \/ ~ModelOk(op.model_name) =>
              upstream_calls = 0 /\ upstream = NotInvoked /\ Failed("VALIDATION_ERROR")
        /\ PromptOk(op.prompt) /\ ModelOk(op.model_name) /\ ~ProjectSet =>
              upstream_calls = 0 /\ upstream = NotInvoked /\ Failed("CONFIG_ERROR")
        /\ PromptOk(op.prompt) /\ ModelOk(op.model_name) /\ ProjectSet
           /\ _vertex_ai_initialized =>
              /\ upstream.kind \in {"text", "raise"}
              /\ IF upstream.kind = "raise" /\ upstream.at = "GenerativeModel"
                 THEN upstream_calls = 0 /\ Returned /\ ~result.success
                 ELSE upstream_calls = 1

\* A valid request reached generate_content, generate_content raised, and
\* that was the only upstream call.
C5_Witness ==
    /\ IsServiceCall
    /\ PromptOk(op.prompt)
    /\ ModelOk(op.model_name)
    /\ _vertex_ai_initialized
    /\ upstream.kind = "raise"
    /\ upstream.at = "generate_content"
    /\ upstream_calls = 1
    /\ Returned /\ ~result.success

MentionsSafety(msg) == Contains(<<"s","a","f","e","t","y">>, Lower(msg))

\* C6 as stated: an upstream failure of any category whose message contains
\* "safety" gives CONTENT_SAFETY_ERROR.
C6_SafetyAnyCategory ==
    IsServiceCall /\ upstream.kind = "raise" /\ MentionsSafety(upstream.msg) =>
        Failed("CONTENT_SAFETY_ERROR")

\* C6 as amended: an InvalidArgument failure whose message contains "safety"
\* (in any case) gives CONTENT_SAFETY_ERROR; a failure of any other category
\* whose message contains "safety" keeps that category's code, which is never
\* VALIDATION_ERROR.
C6_SafetyInvalidArgument ==
    IsServiceCall /\ upstream.kind = "raise" /\ MentionsSafety(upstream.msg) =>
        /\ Returned /\ ~result.success
        /\ upstream.cls = "InvalidArgument" => result.error_code = "CONTENT_SAFETY_ERROR"
        /\ result.error_code # "VALIDATION_ERROR"

\* The upstream raised InvalidArgument with a message holding "Safety", and
\* the call returned CONTENT_SAFETY_ERROR.
C6_Witness ==
    /\ IsServiceCall
    /\ upstream.kind = "raise"
    /\ upstream.cls = "InvalidArgument"
    /\ MentionsSafety(upstream.msg)
    /\ ~Contains(<<"s","a","f","e","t","y">>, upstream.msg)
    /\ Failed("CONTENT_SAFETY_ERROR")

MentionsBillingDisabled(msg) ==
    /\ Contains(<<"b","i","l","l","i","n","g">>, Lower(msg))
    /\ Contains(<<"d","i","s","a","b","l","e","d">>, Lower(msg))

\* C7: a permission denial whose message contains "billing" and "disabled"
\* gives BILLING_DISABLED, rendered with HTTP status 403; any other
\* permission denial gives PERMISSION_DENIED.
C7_BillingDisabled403 ==
    (IsServiceCall \/ IsHttpRequest) /\ upstream.kind = "raise"
    /\ upstream.cls = "PermissionDenied" =>
        IF MentionsBillingDisabled(upstream.msg)
        THEN Failed("BILLING_DISABLED") /\ Rendered.status = 403
        ELSE Failed("PERMISSION_DENIED")

Blank(text) == \A i \in 1..Len(text) : text[i] \in Whitespace

\* C8: an upstream text that is empty after trimming gives API_ERROR, never
\* a success; the text of a success is non-empty and has no leading or
\* trailing whitespace.
C8_EmptyResponseIsFailure ==
    IsServiceCall =>
        /\ upstream.kind = "text" /\ Blank(upstream.text) => Failed("API_ERROR")
        /\ Returned /\ result.success =>
              /\ upstream.kind = "text"
              /\ result.response # <<>>
              /\ result.response[1] \notin Whitespace
              /\ result.response[Len(result.response)] \notin Whitespace

\* The upstream returned whitespace only, and the call returned API_ERROR.
C8_Witness ==
    /\ IsServiceCall
    /\ upstream.kind = "text"
    /\ upstream.text # <<>>
    /\ Blank(upstream.text)
    /\ Failed("API_ERROR")

\* The prompt of the last operation: the argument of a direct call, the
\* body's field ("" when the body has none) of an HTTP request.
PromptGiven ==
    IF IsHttpRequest THEN DictGet(op.body, "prompt", Some(<<>>)) ELSE op.prompt

BlankPrompt(p) == p.isNone \/ \A i \in 1..Len(p.val) : p.val[i].ch \in Whitespace

\* C9: an empty or whitespace-only prompt (a body without a prompt field
\* included) gives VALIDATION_ERROR with the message "Prompt is required",
\* rendered with HTTP status 400, whatever the model and the startup state.
C9_BlankPrompt400 ==
    (IsServiceCall \/ (IsHttpRequest /\ op.authorized)) /\ BlankPrompt(PromptGiven) =>
        /\ Failed("VALIDATION_ERROR")
        /\ result.error_message = Msg("Prompt is required")
        /\ Rendered.status = 400
        /\ Rendered.payload.errors[1].code = "VALIDATION_ERROR"

SameOutcome(a, b) ==
    \/ a.success /\ b.success
    \/ ~a.success /\ ~b.success /\ a.error_code = b.error_code

\* C10: against a deterministic upstream, a call of process_proxy_request
\* with the inputs of an earlier call ends as that call did (the same
\* error_code, or both successes), whatever calls came in between or go on
\* at the same time.
C10_SameInputsSameOutcome ==
    /\ IsServiceCall
    /\ ~earlier.isNone
    /\ earlier.val.prompt = op.prompt
    /\ earlier.val.model_name = op.model_name
    => SameOutcome(earlier.val.ret, result)

\* A later call with the inputs of the call that was kept returned from
\* generate_content while another call was waiting there.
C10_Witness ==
    /\ IsServiceCall
    /\ ~earlier.isNone
    /\ earlier.val.prompt = op.prompt
    /\ earlier.val.model_name = op.model_name
    /\ upstream_calls = 1
    /\ waiting # EmptyBag

\* C11: every dict process_proxy_request returns populates exactly one
\* variant: success with a response text and neither error_code nor
\* error_message, or failure with an error_code and an error_message and no
\* response; and every error_code returned is a key of ERROR_HTTP_STATUS.
C11_ExactlyOneVariant ==
    IsServiceCall =>
        /\ Returned
        /\ result.success \in BOOLEAN
        /\ IF result.success
           THEN /\ "response" \in DOMAIN result
                /\ "error_code" \notin DOMAIN result
                /\ "error_message" \notin DOMAIN result
           ELSE /\ "error_code" \in DOMAIN result
                /\ "error_message" \in DOMAIN result
                /\ "response" \notin DOMAIN result
                /\ result.error_code \in DOMAIN ERROR_HTTP_STATUS

\* The upstream raised an exception that no specific clause names, and the
\* call returned the failure variant of the last clause, details included.
C11_Witness ==
    /\ IsServiceCall
    /\ upstream.kind = "raise"
    /\ upstream.cls = "ValueError"
    /\ Failed("INTERNAL_ERROR")
    /\ DOMAIN result = {"success", "error_code", "error_message", "details", "action"}

====
